---------------------------- MODULE Spec2Model ----------------------------
(* Keyframe curve engine (src/src/tween/mod.rs): BTreeCurve<T, IP> over    *)
(* a BTreeMap<Position, T>, the Linear and Hold interpolators and the      *)
(* Interpolatable blend of f64 and Vector.                                 *)
(*                                                                         *)
(* Position is a two's-complement integer of PosBits bits (i64 in the      *)
(* source), so that `post.0 - pre.0` overflows exactly when the true       *)
(* difference leaves the type.  f64 values are exact rationals <<n, d>>    *)
(* in lowest terms: every arithmetic step of the source is one rational    *)
(* operation in the same order, rounding is not represented.               *)
EXTENDS Integers, Sequences, FiniteSets, TLC

VARIABLES
    ip,               \* the curve's interpolator type IP: "Linear" or "Hold"
    vtype,            \* the curve's value type T: "f64" or "Vector"
    overflow_checks,  \* whether the build panics on integer overflow or wraps
    points,           \* BTreeCurve::points, the entries in ascending key order
    lastSet,          \* history: position |-> value of the latest set at it
    op,               \* the call made last and its arguments
    result            \* outcome of the call made last

vars == <<ip, vtype, overflow_checks, points, lastSet, op, result>>

-----------------------------------------------------------------------------
(* Bounds *)

PosBits == 4

MaxKeys == 3

-----------------------------------------------------------------------------
(* type Position = i64 *)

MinPos == -(2 ^ (PosBits - 1))

MaxPos == (2 ^ (PosBits - 1)) - 1

Position == MinPos .. MaxPos

\* wrapping result of an integer operation whose exact result is n
Wrap(n) == ((n - MinPos) % (2 ^ PosBits)) + MinPos

Overflows(n) == n < MinPos \/ n > MaxPos

\* positions used as keys and queries: both ends of the type and the
\* positions of the test curves
Keys == {MinPos, 1, 2, 3, 6, MaxPos}

-----------------------------------------------------------------------------
(* type Time = f64, as exact rationals *)

Abs(n) == IF n < 0 THEN -n ELSE n

RECURSIVE GCD(_, _)
GCD(a, b) == IF b = 0 THEN a ELSE GCD(b, a % b)

Rat(n, d) ==
    LET g == GCD(Abs(n), Abs(d))
        s == IF d < 0 THEN -1 ELSE 1
    IN  <<(s * n) \div g, (s * d) \div g>>

RatAdd(a, b) == Rat(a[1] * b[2] + b[1] * a[2], a[2] * b[2])

RatSub(a, b) == Rat(a[1] * b[2] - b[1] * a[2], a[2] * b[2])

RatMul(a, b) == Rat(a[1] * b[1], a[2] * b[2])

RatDiv(a, b) == Rat(a[1] * b[2], a[2] * b[1])

One == Rat(1, 1)

\* `x as Time`
ToTime(p) == Rat(p, 1)

-----------------------------------------------------------------------------
(* Value types: f64 and Vector { x, y, z } *)

ValueTypes == {"f64", "Vector"}

Vector(x, y, z) == [x |-> Rat(x, 1), y |-> Rat(y, 1), z |-> Rat(z, 1)]

Values ==
    IF vtype = "f64"
    THEN {Rat(100, 1), Rat(300, 1)}
    ELSE {Vector(100, 1000, 10000), Vector(300, 3000, 30000)}

\* impl Add for Vector / f64 addition
add(a, b) ==
    IF vtype = "f64"
    THEN RatAdd(a, b)
    ELSE [x |-> RatAdd(a.x, b.x), y |-> RatAdd(a.y, b.y), z |-> RatAdd(a.z, b.z)]

\* impl Mul<f64> for &Vector / f64 multiplication
mul(a, other) ==
    IF vtype = "f64"
    THEN RatMul(a, other)
    ELSE [x |-> RatMul(a.x, other), y |-> RatMul(a.y, other), z |-> RatMul(a.z, other)]

-----------------------------------------------------------------------------
(* Keyframe = (&Position, &T), as the pair <<position, value>> *)

Keyframe(p, v) == <<p, v>>

None == <<>>

\* outcome of a call: a returned value or a panic that unwinds the caller
Returned(v, branch) ==
    [kind |-> "value", value |-> v, msg |-> "", branch |-> branch,
     delegated |-> FALSE, pre |-> None, post |-> None, time |-> None]

Panicked(msg, branch) ==
    [kind |-> "panic", value |-> None, msg |-> msg, branch |-> branch,
     delegated |-> FALSE, pre |-> None, post |-> None, time |-> None]

\* variant of interpolate: the equal-position branch answers with post's value
interpolate_post(pre, post, time) ==
    IF pre[1] = post[1]
    THEN Returned(post[2], "degenerate")
    ELSE LET d == post[1] - pre[1]
         IN  IF Overflows(d) /\ overflow_checks
             THEN Panicked("attempt to subtract with overflow", "blend")
             ELSE LET alpha == RatDiv(RatSub(time, ToTime(pre[1])), ToTime(Wrap(d)))
                      p1 == mul(pre[2], RatSub(One, alpha))
                      p2 == mul(post[2], alpha)
                  IN  Returned(add(p1, p2), "blend")

\* Interpolatable::interpolate for f64 and for Vector (same body)
interpolate(pre, post, time) ==
    IF pre[1] = post[1]
    THEN Returned(pre[2], "degenerate")
    ELSE LET d == post[1] - pre[1]
         IN  IF Overflows(d) /\ overflow_checks
             THEN Panicked("attempt to subtract with overflow", "blend")
             ELSE LET alpha == RatDiv(RatSub(time, ToTime(pre[1])), ToTime(Wrap(d)))
                      p1 == mul(pre[2], RatSub(One, alpha))
                      p2 == mul(post[2], alpha)
                  IN  Returned(add(p1, p2), "blend")

Interpolators == {"Linear", "Hold"}

LinearInterpolator_get(pre, post, time) == interpolate(pre, post, time)

\* variant of HoldInterpolator::get: forwards post and the query time
HoldInterpolator_get_blend(pre, post, time) == interpolate(pre, post, time)

HoldInterpolator_get(pre, post, time) == interpolate(pre, pre, ToTime(pre[1]))

\* IP::get, dispatched on the curve's interpolator type
get(pre, post, time) ==
    IF ip = "Linear"
    THEN LinearInterpolator_get(pre, post, time)
    ELSE HoldInterpolator_get(pre, post, time)

-----------------------------------------------------------------------------
(* BTreeMap<Position, T>: the entries in ascending key order *)

\* number of entries of m with a key below k
Rank(m, k) == Cardinality({i \in 1 .. Len(m) : m[i][1] < k})

\* variant of insert: a vector push that keeps every write as its own entry
insert_dup(m, k, v) ==
    LET r == Rank(m, k)
    IN  SubSeq(m, 1, r) \o <<Keyframe(k, v)>> \o SubSeq(m, r + 1, Len(m))

\* variant of insert: a new key goes to the end of the entries
insert_append(m, k, v) ==
    IF \E i \in 1 .. Len(m) : m[i][1] = k
    THEN [i \in 1 .. Len(m) |-> IF m[i][1] = k THEN Keyframe(k, v) ELSE m[i]]
    ELSE Append(m, Keyframe(k, v))

\* variant of insert: a new key cuts off the entries after it
insert_truncate(m, k, v) ==
    IF \E i \in 1 .. Len(m) : m[i][1] = k
    THEN [i \in 1 .. Len(m) |-> IF m[i][1] = k THEN Keyframe(k, v) ELSE m[i]]
    ELSE SubSeq(m, 1, Rank(m, k)) \o <<Keyframe(k, v)>>

\* BTreeMap::insert
insert(m, k, v) ==
    IF \E i \in 1 .. Len(m) : m[i][1] = k
    THEN [i \in 1 .. Len(m) |-> IF m[i][1] = k THEN Keyframe(k, v) ELSE m[i]]
    ELSE LET r == Rank(m, k)
         IN  SubSeq(m, 1, r) \o <<Keyframe(k, v)>> \o SubSeq(m, r + 1, Len(m))

\* the value BTreeMap::insert returns: the value stored at k before, if any
lookup(m, k) ==
    IF \E i \in 1 .. Len(m) : m[i][1] = k
    THEN (CHOOSE e \in {m[i] : i \in 1 .. Len(m)} : e[1] = k)[2]
    ELSE None

\* variant of range_from: the lower bound is Excluded(k)
range_from_excluded(m, k) ==
    LET in(e) == e[1] > k IN SelectSeq(m, in)

\* BTreeMap::range((Included(k), Unbounded)), in iteration order
range_from(m, k) ==
    LET in(e) == e[1] >= k IN SelectSeq(m, in)

\* variant of range_below: the upper bound is Unbounded
range_unbounded(m, k) == m

\* BTreeMap::range((Unbounded, Excluded(k))), in iteration order
range_below(m, k) ==
    LET in(e) == e[1] < k IN SelectSeq(m, in)

\* variant of value_at: outside the stored range the nearest keyframe answers
value_at_clamp(m, wanted_key) ==
    LET post_range == range_from(m, wanted_key)
    IN  IF post_range # <<>>
        THEN LET post == Head(post_range)
             IN  IF wanted_key = post[1]
                 THEN Returned(post[2], "none")
                 ELSE LET pre_range == range_below(m, wanted_key)
                      IN  IF pre_range = <<>>
                          THEN Returned(post[2], "none")
                          ELSE LET pre == pre_range[Len(pre_range)]
                                   time == ToTime(wanted_key)
                               IN  [get(pre, post, time) EXCEPT
                                       !.delegated = TRUE, !.pre = pre,
                                       !.post = post, !.time = time]
        ELSE IF m = <<>>
             THEN Panicked("too far", "none")
             ELSE Returned(m[Len(m)][2], "none")

\* BTreeCurve::value_at
value_at(m, wanted_key) ==
    LET post_range == range_from(m, wanted_key)
    IN  IF post_range # <<>>
        THEN LET post == Head(post_range)
             IN  IF wanted_key = post[1]
                 THEN Returned(post[2], "none")
                 ELSE LET pre_range == range_below(m, wanted_key)
                      IN  IF pre_range = <<>>
                          THEN Panicked("called Option::unwrap() on a None value", "none")
                          ELSE LET pre == pre_range[Len(pre_range)]
                                   time == ToTime(wanted_key)
                               IN  [get(pre, post, time) EXCEPT
                                       !.delegated = TRUE, !.pre = pre,
                                       !.post = post, !.time = time]
        ELSE Panicked("too far", "none")

-----------------------------------------------------------------------------
(* State machine *)

\* the call made last: its name and arguments, and for set the value that
\* BTreeMap::insert found at the key (None when the key was new)
NoOp ==
    [name |-> "new", key |-> 0, old |-> None, pre |-> None, post |-> None,
     time |-> None]

NoResult == Returned(None, "none")

\* BTreeCurve::<T, IP>::new(): empty map, interpolator and value type fixed
Init ==
    /\ ip \in Interpolators
    /\ vtype \in ValueTypes
    /\ overflow_checks \in BOOLEAN
    /\ points = <<>>
    /\ lastSet = <<>>
    /\ op = NoOp
    /\ result = NoResult

\* Curve::set(key, value)
Set(key, value) ==
    /\ (\E i \in 1 .. Len(points) : points[i][1] = key) \/ Len(points) < MaxKeys
    /\ points' = insert(points, key, value)
    /\ lastSet' = [k \in (DOMAIN lastSet) \cup {key} |->
                      IF k = key THEN value ELSE lastSet[k]]
    /\ op' = [NoOp EXCEPT !.name = "set", !.key = key, !.old = lookup(points, key)]
    /\ result' = NoResult
    /\ UNCHANGED <<ip, vtype, overflow_checks>>

\* Curve::value_at(&wanted_key)
ValueAt(wanted_key) ==
    /\ op' = [NoOp EXCEPT !.name = "value_at", !.key = wanted_key]
    /\ result' = value_at(points, wanted_key)
    /\ UNCHANGED <<ip, vtype, overflow_checks, points, lastSet>>

\* keyframes and times handed directly to T::interpolate
DirectKeys == {1, 3}

DirectTimes == {ToTime(1), Rat(5, 2)}

\* T::interpolate(&pre, &post, time) called on its own
Interpolate(pre, post, time) ==
    /\ op' = [NoOp EXCEPT !.name = "interpolate", !.pre = pre, !.post = post,
                          !.time = time]
    /\ result' = interpolate(pre, post, time)
    /\ UNCHANGED <<ip, vtype, overflow_checks, points, lastSet>>

Next ==
    \/ \E key \in Keys, value \in Values : Set(key, value)
    \/ \E wanted_key \in Keys : ValueAt(wanted_key)
    \/ \E pk \in DirectKeys, qk \in DirectKeys, pv \in Values, qv \in Values,
          time \in DirectTimes :
          Interpolate(Keyframe(pk, pv), Keyframe(qk, qv), time)

Spec == Init /\ [][Next]_vars


-----------------------------------------------------------------------------
(* Reference notions for the properties, taken from the history of set     *)
(* calls (lastSet) and not from the layout of the store                    *)

SetKeys == DOMAIN lastSet

Max(S) == CHOOSE k \in S : \A j \in S : j <= k

Min(S) == CHOOSE k \in S : \A j \in S : k <= j

Below(q) == {k \in SetKeys : k < q}

Above(q) == {k \in SetKeys : k > q}

InRange(q) == SetKeys # {} /\ Min(SetKeys) <= q /\ q <= Max(SetKeys)

Queried == op.name = "value_at"

\* the curve obtained by inserting the keyframes of lastSet in ascending
\* position order into an empty map
RECURSIVE AscendingBuild(_)
AscendingBuild(S) ==
    IF S = {}
    THEN <<>>
    ELSE LET k == Max(S) IN insert(AscendingBuild(S \ {k}), k, lastSet[k])

-----------------------------------------------------------------------------
(* C1  Exactness: a query at a position that has been set returns exactly  *)
(* the value most recently set there, for Linear and for Hold, whatever    *)
(* else is stored, and the interpolator is not consulted.                  *)
C1_Exactness ==
    /\ \A p \in SetKeys :
          LET r == value_at(points, p)
          IN  r.kind = "value" /\ r.value = lastSet[p] /\ ~r.delegated
    /\ (Queried /\ op.key \in SetKeys) =>
          /\ result.kind = "value"
          /\ result.value = lastSet[op.key]
          /\ ~result.delegated
          /\ result.branch = "none"

\* an exact-match query between two other keyframes of different value
C1_Witness ==
    /\ Queried
    /\ op.key \in SetKeys
    /\ Below(op.key) # {} /\ Above(op.key) # {}
    /\ lastSet[Max(Below(op.key))] # lastSet[op.key]
    /\ result.kind = "value"
    /\ result.value = lastSet[op.key]

(* C2  Overwrite law: the store never holds two entries with the same      *)
(* position, it holds as many keyframes as distinct positions were ever    *)
(* set, and right after set(p, v) there is exactly one keyframe at p and   *)
(* its value is v, also when p held another value before.                  *)
C2_Overwrite ==
    /\ \A i, j \in 1 .. Len(points) : points[i][1] = points[j][1] => i = j
    /\ Len(points) = Cardinality(SetKeys)
    /\ op.name = "set" =>
          /\ Cardinality({i \in 1 .. Len(points) : points[i][1] = op.key}) = 1
          /\ \A i \in 1 .. Len(points) :
                points[i][1] = op.key => points[i][2] = lastSet[op.key]

\* set has just replaced a different value at a stored position
C2_Witness ==
    /\ op.name = "set"
    /\ op.old # None
    /\ op.old # lastSet[op.key]
    /\ Len(points) >= 2
    /\ \E i \in 1 .. Len(points) : points[i] = Keyframe(op.key, lastSet[op.key])

(* C3  Order independence: whatever order the keyframes were inserted in,  *)
(* every query gives the same outcome (same value or same failure) as on   *)
(* the curve built by inserting the same keyframes in ascending position   *)
(* order.                                                                  *)
C3_OrderIndependence ==
    LET sorted == AscendingBuild(SetKeys)
    IN  /\ \A q \in Keys : value_at(points, q) = value_at(sorted, q)
        /\ Queried => result = value_at(sorted, op.key)

\* the last insertion put a new keyframe between two inserted earlier, so
\* the keyframes were not inserted in ascending order
C3_Witness ==
    /\ op.name = "set"
    /\ op.old = None
    /\ Below(op.key) # {} /\ Above(op.key) # {}
    /\ value_at(points, op.key).value = lastSet[op.key]

(* C4  Hold law: on a Hold curve, for neighbouring keyframes (p1, v1) and  *)
(* (p2, v2), a query q with p1 <= q < p2 returns exactly v1, whatever v2   *)
(* and whatever the place of q between them.                               *)
C4_HoldLaw ==
    (Queried /\ ip = "Hold" /\ Above(op.key) # {}
        /\ (op.key \in SetKeys \/ Below(op.key) # {})) =>
        LET p1 == IF op.key \in SetKeys THEN op.key ELSE Max(Below(op.key))
        IN  result.kind = "value" /\ result.value = lastSet[p1]

\* a Hold query strictly between two keyframes of different value
C4_Witness ==
    /\ Queried /\ ip = "Hold"
    /\ op.key \notin SetKeys
    /\ Below(op.key) # {} /\ Above(op.key) # {}
    /\ lastSet[Max(Below(op.key))] # lastSet[Min(Above(op.key))]
    /\ result.value = lastSet[Max(Below(op.key))]

\* v1*(1 - a) + v2*a with a = (q - p1)/(p2 - p1), componentwise for Vector
LinearBlend(p1, v1, p2, v2, q) ==
    LET a == Rat(q - p1, p2 - p1)
        b == Rat(p2 - q, p2 - p1)
        mix(x, y) == RatAdd(RatMul(x, b), RatMul(y, a))
    IN  IF vtype = "f64"
        THEN mix(v1, v2)
        ELSE [x |-> mix(v1.x, v2.x), y |-> mix(v1.y, v2.y), z |-> mix(v1.z, v2.z)]

\* the query of the last value_at lies strictly between two set positions
Bracketed == Queried /\ op.key \notin SetKeys /\ Below(op.key) # {} /\ Above(op.key) # {}

(* C5  Linear law: on a Linear curve, for neighbouring keyframes (p1, v1)  *)
(* and (p2, v2) and a query q strictly between them, value_at(q) is        *)
(* v1*(1 - a) + v2*a with a = (q - p1)/(p2 - p1), componentwise for the    *)
(* vector type.                                                            *)
C5_LinearLaw ==
    (Bracketed /\ ip = "Linear") =>
        LET p1 == Max(Below(op.key))
            p2 == Min(Above(op.key))
        IN  /\ result.kind = "value"
            /\ result.value = LinearBlend(p1, lastSet[p1], p2, lastSet[p2], op.key)

\* C5 holds wherever post.0 - pre.0 does not leave the Position type
LinearLawWithoutOverflow ==
    (Bracketed /\ ip = "Linear"
        /\ ~Overflows(Min(Above(op.key)) - Max(Below(op.key)))) =>
        LET p1 == Max(Below(op.key))
            p2 == Min(Above(op.key))
        IN  /\ result.kind = "value"
            /\ result.value = LinearBlend(p1, lastSet[p1], p2, lastSet[p2], op.key)

\* the curves of the three tests: (1, 100), (3, 300), (6, 600)
TestValue(n) == IF vtype = "f64" THEN Rat(n, 1) ELSE Vector(n, 10 * n, 100 * n)

TestCurve ==
    insert(insert(insert(<<>>, 1, TestValue(100)), 3, TestValue(300)),
           6, TestValue(600))

\* the assertions of the three tests
TestScenarios ==
    /\ value_at(TestCurve, 1).value = TestValue(100)
    /\ value_at(TestCurve, 3).value = TestValue(300)
    /\ value_at(TestCurve, 6).value = TestValue(600)
    /\ ip = "Linear" =>
          /\ value_at(TestCurve, 2).value = TestValue(200)
          /\ value_at(TestCurve, 4).value = TestValue(400)
          /\ value_at(TestCurve, 5).value = TestValue(500)
    /\ ip = "Hold" =>
          /\ value_at(TestCurve, 2).value = TestValue(100)
          /\ value_at(TestCurve, 4).value = TestValue(300)
          /\ value_at(TestCurve, 5).value = TestValue(300)

(* C6  No extrapolation: value_at(q) returns a value if and only if the    *)
(* curve is non-empty and q lies between the minimum and the maximum       *)
(* stored position (inclusive), for Linear and for Hold.                   *)
C6_NoExtrapolation ==
    Queried => (result.kind = "value" <=> InRange(op.key))

\* C6 holds on every query that does not reach an overflowing subtraction
NoExtrapolationWithoutOverflow ==
    (Queried /\ result.msg # "attempt to subtract with overflow") =>
        (result.kind = "value" <=> InRange(op.key))

(* C7  As claimed: an out-of-range query is reported as an error result    *)
(* the caller can observe and recover from, not as a crash of the caller.  *)
C7_ErrorResult ==
    (Queried /\ SetKeys # {} /\ ~InRange(op.key)) => result.kind = "error"

(* C7  As amended: an out-of-range query makes value_at panic, with the    *)
(* message "too far" above the maximum and with a failed Option::unwrap    *)
(* below the minimum; no value is returned and the interpolator is not     *)
(* called.                                                                 *)
C7_OutOfRangePanics ==
    (Queried /\ SetKeys # {} /\ ~InRange(op.key)) =>
        /\ result.kind = "panic"
        /\ result.value = None
        /\ ~result.delegated
        /\ op.key > Max(SetKeys) => result.msg = "too far"
        /\ op.key < Min(SetKeys) =>
              result.msg = "called Option::unwrap() on a None value"

\* a query below the minimum of a curve of several keyframes has panicked
C7_Witness ==
    /\ Queried
    /\ Cardinality(SetKeys) >= 2
    /\ op.key < Min(SetKeys)
    /\ result.kind = "panic"

(* C8  Bracket resolution: when value_at(q) hands a pair to the            *)
(* interpolator, pre is the keyframe of the greatest position below q and  *)
(* post the keyframe of the least position above q, so that                *)
(* pre.position < q < post.position with no stored position between them;  *)
(* for a q that is not stored this happens if and only if q lies strictly  *)
(* between the minimum and the maximum stored position.                    *)
C8_BracketResolution ==
    Queried =>
        /\ result.delegated =>
              /\ Below(op.key) # {} /\ Above(op.key) # {}
              /\ result.pre = Keyframe(Max(Below(op.key)), lastSet[Max(Below(op.key))])
              /\ result.post = Keyframe(Min(Above(op.key)), lastSet[Min(Above(op.key))])
              /\ result.pre[1] < op.key /\ op.key < result.post[1]
              /\ \A k \in SetKeys : ~(result.pre[1] < k /\ k < result.post[1])
              /\ result.time = ToTime(op.key)
        /\ op.key \in SetKeys => ~result.delegated
        /\ op.key \notin SetKeys =>
              (result.delegated <=>
                  (SetKeys # {} /\ Min(SetKeys) < op.key /\ op.key < Max(SetKeys)))

\* a delegated query on a curve with a third keyframe outside the bracket
C8_Witness ==
    /\ Queried
    /\ result.delegated
    /\ Cardinality(SetKeys) >= 3
    /\ Cardinality(Below(op.key)) >= 2
    /\ result.pre[1] = Max(Below(op.key))

(* C9  Degenerate bracket: T::interpolate called with pre and post at the  *)
(* same position returns pre.value for any time through the branch that    *)
(* does not divide; value_at on a Linear curve never takes that branch,    *)
(* and every delegated query of a Hold curve takes it.                     *)
C9_DegenerateBracket ==
    /\ (op.name = "interpolate" /\ op.pre[1] = op.post[1]) =>
          /\ result.kind = "value"
          /\ result.value = op.pre[2]
          /\ result.branch = "degenerate"
    /\ (Queried /\ ip = "Linear") => result.branch # "degenerate"
    /\ (Queried /\ ip = "Hold" /\ result.delegated) =>
          /\ result.branch = "degenerate"
          /\ result.kind = "value"
          /\ result.value = result.pre[2]

\* interpolate was called with equal positions, different values and a
\* time away from the position
C9_Witness ==
    /\ op.name = "interpolate"
    /\ op.pre[1] = op.post[1]
    /\ op.pre[2] # op.post[2]
    /\ op.time # ToTime(op.pre[1])
    /\ result.value = op.pre[2]

(* C10  Frame: set(p, v) leaves every keyframe at another position as it   *)
(* was and removes none; value_at leaves the store as it was whether it    *)
(* returns or panics, and the same query repeated with no set in between   *)
(* has the same outcome.                                                   *)
C10_Frame ==
    [][ /\ op'.name = "set" =>
            /\ \A i \in 1 .. Len(points) :
                  points[i][1] # op'.key =>
                      \E j \in 1 .. Len(points') : points'[j] = points[i]
            /\ \A j \in 1 .. Len(points') :
                  points'[j][1] # op'.key =>
                      \E i \in 1 .. Len(points) : points[i] = points'[j]
            /\ \A i \in 1 .. Len(points) :
                  \E j \in 1 .. Len(points') : points'[j][1] = points[i][1]
        /\ op'.name = "value_at" => points' = points
        /\ (Queried /\ op'.name = "value_at" /\ op'.key = op.key) =>
              result' = result
      ]_vars

\* a query on a curve of several keyframes has panicked
C10_Witness ==
    /\ Queried
    /\ result.kind = "panic"
    /\ Len(points) = MaxKeys
    /\ \A k \in SetKeys : lookup(points, k) = lastSet[k]

=============================================================================
